---- MODULE Spec2Model ----
(***************************************************************************)
(* rcpputils::fs::path (src/src/filesystem_helper.cpp) as a state machine. *)
(* A std::string is a sequence of one-character strings; a path object is  *)
(* the record of its two private members path_ and path_as_vector_.        *)
(* The platform (the _WIN32 branches and kPreferredSeparator) is fixed at  *)
(* start-up by the variable win.                                           *)
(***************************************************************************)
EXTENDS Integers, Sequences, FiniteSets, TLC

VARIABLES
  win,      \* TRUE: built with _WIN32 (separator '\'), FALSE: POSIX ('/')
  p,        \* the path object the client holds
  last,     \* the last operation applied: its name, operands and returned value
  crashed,  \* TRUE once an operation with undefined behaviour ended the process
  fs,       \* the file system: location (sequence of names) |-> kind of entry
  cwd,      \* the working directory of the process, a location
  stack,    \* per caller: the frames of the free function it is running
  calls,    \* per caller: the calls it made, the latest last
  rma,      \* the RollingMeanAccumulator<T> object and what was handed to it
  guards,   \* the scope_exit objects and how often each callable ran
  far       \* the locals of the running find_and_replace() call

vars == <<win, p, last, crashed, fs, cwd, stack, calls, rma, guards, far>>

----------------------------------------------------------------------------
(* Bounds of the model *)

MaxLen == 3        \* longest string handed to the string constructor
MaxOtherLen == 1   \* longest right-hand string handed to operator/ and operator/=
MaxPathLen == 4    \* joins producing a longer string form are not explored
MaxTimes == 3      \* largest n_times handed to remove_extension
MaxGarbage == 1    \* longest string an out-of-bounds read may yield

----------------------------------------------------------------------------
(* Characters and strings *)

FSLASH == "/"
BSLASH == "\\"
DOT == "."
COLON == ":"
LETTER == "a"

\* ':' is read only by the _WIN32 branch of is_absolute_with_drive_letter; in
\* a POSIX build it is one more ordinary character, as LETTER is
Char(windows) ==
  IF windows THEN {FSLASH, BSLASH, DOT, COLON, LETTER}
  ELSE {FSLASH, BSLASH, DOT, LETTER}

StringsUpTo(n, windows) == UNION {[1..k -> Char(windows)] : k \in 0..n}

\* the strings the client hands to the constructor, to operator/ and
\* operator/=, and the strings a stray read may yield
ConstructStrings == [w \in BOOLEAN |-> StringsUpTo(MaxLen, w)]
OtherStrings == [w \in BOOLEAN |-> StringsUpTo(MaxOtherLen, w)]
GarbageStrings == [w \in BOOLEAN |-> StringsUpTo(MaxGarbage, w)]

\* std::replace(first, last, old_value, new_value)
replace(s, old, new) == [i \in 1..Len(s) |-> IF s[i] = old THEN new ELSE s[i]]

\* std::string::find_last_of(c): 1-based position of the last c, 0 for npos
find_last_of(s, c) ==
  IF \E i \in 1..Len(s) : s[i] = c
  THEN CHOOSE i \in 1..Len(s) : s[i] = c /\ \A j \in (i+1)..Len(s) : s[j] # c
  ELSE 0

\* position of the first c in s, 0 when there is none (the scan of std::getline)
find_first_of(s, c) ==
  IF \E i \in 1..Len(s) : s[i] = c
  THEN CHOOSE i \in 1..Len(s) : s[i] = c /\ \A j \in 1..(i-1) : s[j] # c
  ELSE 0

\* #ifdef _WIN32 '\\' #else '/'
kPreferredSeparator == IF win THEN BSLASH ELSE FSLASH

----------------------------------------------------------------------------
(* split.hpp *)

RECURSIVE getline_loop(_, _, _, _)
\* while (std::getline(ss, item, delim)) { if (skip_empty && item == "") continue; it = item; }
getline_loop(rest, delim, skip_empty, result) ==
  IF rest = <<>>
  THEN result
  ELSE LET k == find_first_of(rest, delim)
           item == IF k = 0 THEN rest ELSE SubSeq(rest, 1, k - 1)
           remaining == IF k = 0 THEN <<>> ELSE SubSeq(rest, k + 1, Len(rest))
       IN  IF skip_empty /\ item = <<>>
           THEN getline_loop(remaining, delim, skip_empty, result)
           ELSE getline_loop(remaining, delim, skip_empty, Append(result, item))

split(input, delim, skip_empty) == getline_loop(input, delim, skip_empty, <<>>)

----------------------------------------------------------------------------
(* class path *)

\* path() = default
EmptyPath == [path_ |-> <<>>, path_as_vector_ |-> <<>>]

\* the constructor with its second std::replace left out
path_one_replace(s) ==
  LET r1 == replace(s, BSLASH, kPreferredSeparator)
  IN  [path_ |-> r1, path_as_vector_ |-> split(r1, kPreferredSeparator, FALSE)]

\* path::path(const std::string & p)
path(s) ==
  LET r1 == replace(s, BSLASH, kPreferredSeparator)
      r2 == replace(r1, FSLASH, kPreferredSeparator)
  IN  [path_ |-> r2, path_as_vector_ |-> split(r2, kPreferredSeparator, FALSE)]

string(x) == x.path_

empty(x) == x.path_ = <<>>

\* static bool is_absolute_with_drive_letter(const std::string & path)
is_absolute_with_drive_letter(s) ==
  IF ~win THEN FALSE
  ELSE IF s = <<>> THEN FALSE
  ELSE SubSeq(s, 2, IF Len(s) < 3 THEN Len(s) ELSE 3) = <<COLON, BSLASH>>

is_absolute(x) ==
  /\ Len(x.path_) > 0
  /\ (x.path_[1] = kPreferredSeparator \/ is_absolute_with_drive_letter(x.path_))

\* operator/= without its is_absolute() branch: the right side is always appended
operator_div_assign_no_reset(this, other) ==
  LET sepd == IF this.path_ = <<>> \/ this.path_[Len(this.path_)] # kPreferredSeparator
              THEN Append(this.path_, kPreferredSeparator)
              ELSE this.path_
  IN  [path_ |-> sepd \o string(other),
       path_as_vector_ |-> this.path_as_vector_ \o other.path_as_vector_]

\* operator/= that appends the separator without looking at the last character
operator_div_assign_always_sep(this, other) ==
  IF is_absolute(other)
  THEN [path_ |-> other.path_, path_as_vector_ |-> other.path_as_vector_]
  ELSE [path_ |-> Append(this.path_, kPreferredSeparator) \o string(other),
        path_as_vector_ |-> this.path_as_vector_ \o other.path_as_vector_]

\* operator/= that appends no separator to an empty left side
operator_div_assign_empty_left(this, other) ==
  IF is_absolute(other)
  THEN [path_ |-> other.path_, path_as_vector_ |-> other.path_as_vector_]
  ELSE LET sepd == IF this.path_ # <<>> /\ this.path_[Len(this.path_)] # kPreferredSeparator
                   THEN Append(this.path_, kPreferredSeparator)
                   ELSE this.path_
       IN  [path_ |-> sepd \o string(other),
            path_as_vector_ |-> this.path_as_vector_ \o other.path_as_vector_]

\* path & path::operator/=(const path & other)
operator_div_assign(this, other) ==
  IF is_absolute(other)
  THEN [path_ |-> other.path_, path_as_vector_ |-> other.path_as_vector_]
  ELSE LET sepd == IF this.path_ = <<>> \/ this.path_[Len(this.path_)] # kPreferredSeparator
                   THEN Append(this.path_, kPreferredSeparator)
                   ELSE this.path_
       IN  [path_ |-> sepd \o string(other),
            path_as_vector_ |-> this.path_as_vector_ \o other.path_as_vector_]

\* path path::operator/(const path & other) const
operator_div(this, other) == operator_div_assign(this, other)

RECURSIVE parent_path_loop_always_join(_, _, _)
\* the loop of parent_path() without its `parent = *it` branch
parent_path_loop_always_join(this, it, parent) ==
  IF it = Len(this.path_as_vector_)
  THEN parent
  ELSE parent_path_loop_always_join(this, it + 1,
         operator_div_assign(parent, path(this.path_as_vector_[it])))

RECURSIVE parent_path_loop(_, _, _)
\* for (auto it = this->cbegin(); it != --this->cend(); ++it) { ... }
parent_path_loop(this, it, parent) ==
  IF it = Len(this.path_as_vector_)
  THEN parent
  ELSE LET piece == this.path_as_vector_[it]
           next == IF empty(parent) /\
                      (~is_absolute(this) \/ is_absolute_with_drive_letter(this.path_))
                   THEN path(piece)
                   ELSE operator_div_assign(parent, path(piece))
       IN  parent_path_loop(this, it + 1, next)

\* parent_path() without the edge case of the two-segment drive-letter path
parent_path_no_drive_root(this) ==
  IF empty(this) THEN path(<<>>)
  ELSE IF Len(this.path_as_vector_) = 1
  THEN IF is_absolute(this)
       THEN IF is_absolute_with_drive_letter(this.path_)
            THEN path(Append(this.path_as_vector_[1], kPreferredSeparator))
            ELSE path(<<kPreferredSeparator>>)
       ELSE path(<<DOT>>)
  ELSE parent_path_loop(this, 1, EmptyPath)

\* path path::parent_path() const, for an object whose loop stays inside
\* path_as_vector_ (see parent_path_undefined)
parent_path(this) ==
  IF empty(this) THEN path(<<>>)
  ELSE IF Len(this.path_as_vector_) = 1
  THEN IF is_absolute(this)
       THEN IF is_absolute_with_drive_letter(this.path_)
            THEN path(Append(this.path_as_vector_[1], kPreferredSeparator))
            ELSE path(<<kPreferredSeparator>>)
       ELSE path(<<DOT>>)
  ELSE IF Len(this.path_as_vector_) = 2 /\ is_absolute_with_drive_letter(this.path_)
  THEN path(Append(this.path_as_vector_[1], kPreferredSeparator))
  ELSE parent_path_loop(this, 1, EmptyPath)

\* parent_path() on a non-empty string with an empty vector: cbegin() == cend(),
\* so `it != --cend()` holds and *it reads outside the vector
parent_path_undefined(this) == ~empty(this) /\ Len(this.path_as_vector_) = 0

\* filename() returning the first element instead of the last
filename_first(this) ==
  IF this.path_ = <<>>
  THEN EmptyPath
  ELSE path(this.path_as_vector_[1])

\* path path::filename() const, for an object with *--cend() inside the vector
filename(this) ==
  IF this.path_ = <<>>
  THEN EmptyPath
  ELSE path(this.path_as_vector_[Len(this.path_as_vector_)])

\* filename() on a non-empty string with an empty vector: *--cend() reads
\* before the first element
filename_undefined(this) == this.path_ # <<>> /\ Len(this.path_as_vector_) = 0

\* path path::extension() const, for an object whose split_fname is not empty
extension(this) ==
  LET split_fname == split(string(this), DOT, FALSE)
  IN  IF Len(split_fname) = 1
      THEN path(<<>>)
      ELSE path(<<DOT>> \o split_fname[Len(split_fname)])

\* extension() on the empty string: split_fname is empty, its size is not 1,
\* and split_fname.back() reads an empty vector
extension_undefined(this) == Len(split(string(this), DOT, FALSE)) = 0

RECURSIVE remove_extension_loop_first_dot(_, _, _)
\* the loop of remove_extension() cutting at the first '.' instead of the last
remove_extension_loop_first_dot(new_path, i, n_times) ==
  IF ~(i < n_times)
  THEN new_path
  ELSE LET new_path_str == string(new_path)
           first_dot == find_first_of(new_path_str, DOT)
       IN  IF first_dot = 0
           THEN new_path
           ELSE remove_extension_loop_first_dot(
                  path(SubSeq(new_path_str, 1, first_dot - 1)), i + 1, n_times)

RECURSIVE remove_extension_loop(_, _, _)
\* for (int i = 0; i < n_times; i++) { ... }
remove_extension_loop(new_path, i, n_times) ==
  IF ~(i < n_times)
  THEN new_path
  ELSE LET new_path_str == string(new_path)
           last_dot == find_last_of(new_path_str, DOT)
       IN  IF last_dot = 0
           THEN new_path
           ELSE remove_extension_loop(path(SubSeq(new_path_str, 1, last_dot - 1)),
                                      i + 1, n_times)

\* path remove_extension(const path & file_path, int n_times)
remove_extension(file_path, n_times) == remove_extension_loop(file_path, 0, n_times)

\* bool operator==(const path & a, const path & b)
operator_eq(a, b) == string(a) = string(b)

----------------------------------------------------------------------------
(* The file system the free functions act on.  A location is the sequence   *)
(* of names leading to an entry from the root; the root is the empty        *)
(* sequence.  A directory is "dir" (readable and writable), "dir_nowrite"   *)
(* (no entry can be made or removed in it) or "dir_noread" (cannot be       *)
(* opened for listing).                                                     *)

MaxEntries == 3    \* most entries another process puts in the file system
MaxDepth == 2      \* deepest location another process makes an entry at
MaxArgLevels == 2  \* most names in a path string handed to a free function
MaxCalls == 2      \* most calls the callers make
MaxRestricted == 1 \* most directories with a restricted mode

Callers == {1, 2}

ROOT == <<>>
NAME_A == <<LETTER>>
NAME_B == <<"b">>
FsNames == {NAME_A, NAME_B}
ArgNames == {NAME_A}

DirKinds == {"dir", "dir_nowrite", "dir_noread"}

RootOnly == [l \in {ROOT} |-> "dir"]

IsDir(f, l) == l \in DOMAIN f /\ f[l] \in DirKinds

Parent(l) == SubSeq(l, 1, Len(l) - 1)

Children(f, l) == {x \in DOMAIN f : Len(x) = Len(l) + 1 /\ Parent(x) = l}

With(f, l, kind) == [x \in DOMAIN f \cup {l} |-> IF x = l THEN kind ELSE f[x]]

Without(f, l) == [x \in DOMAIN f \ {l} |-> f[x]]

RECURSIVE walk(_, _, _, _)
\* path resolution: every component is looked up in a directory
walk(f, cur, comps, i) ==
  IF i > Len(comps)
  THEN [ok |-> TRUE, loc |-> cur]
  ELSE IF ~IsDir(f, cur)
  THEN [ok |-> FALSE, loc |-> cur]
  ELSE LET c == comps[i]
           next == IF c = <<DOT>> THEN cur
                   ELSE IF c = <<DOT, DOT>>
                   THEN (IF cur = ROOT THEN ROOT ELSE Parent(cur))
                   ELSE Append(cur, c)
       IN  walk(f, next, comps, i + 1)

\* the location a path string names for the operating system: from the root
\* when it begins with the separator, from the working directory otherwise;
\* ok is FALSE when the string is empty or a component on the way is missing
\* or not a directory
resolve(f, wd, s) ==
  IF s = <<>>
  THEN [ok |-> FALSE, loc |-> ROOT]
  ELSE LET r == walk(f, IF s[1] = kPreferredSeparator THEN ROOT ELSE wd,
                     split(s, kPreferredSeparator, TRUE), 1)
       IN  IF r.ok /\ s[Len(s)] = kPreferredSeparator
              /\ r.loc \in DOMAIN f /\ f[r.loc] = "file"
           THEN [ok |-> FALSE, loc |-> r.loc]
           ELSE r

\* access(path, 0) == 0
access(f, wd, s) ==
  LET r == resolve(f, wd, s) IN r.ok /\ r.loc \in DOMAIN f

\* stat(path, &buf) == 0 && S_ISDIR(buf.st_mode)
stat_is_dir(f, wd, s) ==
  LET r == resolve(f, wd, s) IN r.ok /\ IsDir(f, r.loc)

\* stat(path, &buf) == 0 && S_ISREG(buf.st_mode)
stat_is_reg(f, wd, s) ==
  LET r == resolve(f, wd, s) IN r.ok /\ r.loc \in DOMAIN f /\ f[r.loc] = "file"

\* the last component of the string is "." or ".."
EndsInDot(s) ==
  LET comps == split(s, kPreferredSeparator, TRUE)
  IN  comps # <<>> /\ comps[Len(comps)] \in {<<DOT>>, <<DOT, DOT>>}

\* mkdir(path, 0777): ok, or the failure with errno == EEXIST or another errno
mkdir(f, wd, s) ==
  LET r == resolve(f, wd, s)
  IN  IF ~r.ok
      THEN [fs |-> f, ok |-> FALSE, eexist |-> FALSE]
      ELSE IF r.loc \in DOMAIN f
      THEN [fs |-> f, ok |-> FALSE, eexist |-> TRUE]
      ELSE IF f[Parent(r.loc)] = "dir_nowrite"
      THEN [fs |-> f, ok |-> FALSE, eexist |-> FALSE]
      ELSE [fs |-> With(f, r.loc, "dir"), ok |-> TRUE, eexist |-> FALSE]

\* ::remove(path): unlink() of a file, rmdir() of an empty directory
os_remove(f, wd, s) ==
  LET r == resolve(f, wd, s)
  IN  IF \/ ~r.ok
         \/ r.loc \notin DOMAIN f
         \/ r.loc = ROOT
         \/ EndsInDot(s)
         \/ Children(f, r.loc) # {}
         \/ f[Parent(r.loc)] = "dir_nowrite"
      THEN [fs |-> f, ok |-> FALSE]
      ELSE [fs |-> Without(f, r.loc), ok |-> TRUE]

----------------------------------------------------------------------------
(* The free functions on paths that only query *)

\* bool path::exists() const
exists(f, wd, x) == access(f, wd, x.path_)

\* bool path::is_directory() const noexcept
is_directory(f, wd, x) == stat_is_dir(f, wd, x.path_)

\* bool path::is_regular_file() const noexcept
is_regular_file(f, wd, x) == stat_is_reg(f, wd, x.path_)

\* remove() taking everything below a directory with it
remove_subtree(f, wd, x) ==
  LET r == resolve(f, wd, string(x))
  IN  IF os_remove(f, wd, string(x)).ok \/ ~r.ok \/ r.loc \notin DOMAIN f \/ r.loc = ROOT
      THEN os_remove(f, wd, string(x))
      ELSE [fs |-> [l \in {y \in DOMAIN f :
                         ~(Len(y) >= Len(r.loc) /\ SubSeq(y, 1, Len(r.loc)) = r.loc)} |-> f[l]],
            ok |-> TRUE]

\* bool remove(const path & p)  (the #else branch)
remove(f, wd, x) == os_remove(f, wd, string(x))

----------------------------------------------------------------------------
(* The other classes and functions of the library, while the client does    *)
(* not use them                                                             *)

\* no accumulator has been constructed
NoAccumulator == [made |-> FALSE]

\* no scope_exit object has been constructed
NoGuards == <<>>

\* no find_and_replace() call is running
NoText == [pc |-> "idle"]

----------------------------------------------------------------------------
(* The client: one action per operation of the class *)

\* arg: the raw string the constructor was given; self: the object the
\* operation was applied to; other, n: its operand; result: what it returned
Op(name, arg, self, other, n, result) ==
  [op |-> name, arg |-> arg, self |-> self, other |-> other, n |-> n,
   result |-> result]

\* An operation whose behaviour is undefined either ends the process or
\* returns the path built from whatever string the stray read produced.
Undefined(name) ==
  \/ /\ crashed' = TRUE
     /\ UNCHANGED <<win, p, last, fs, cwd, stack, calls, rma, guards, far>>
  \/ /\ \E g \in GarbageStrings[win] :
           last' = Op(name, <<>>, p, EmptyPath, 0, path(g))
     /\ UNCHANGED <<win, p, crashed, fs, cwd, stack, calls, rma, guards, far>>

Init ==
  /\ win \in BOOLEAN
  /\ p = EmptyPath
  /\ last = Op("path()", <<>>, EmptyPath, EmptyPath, 0, EmptyPath)
  /\ crashed = FALSE
  /\ fs = RootOnly
  /\ cwd = ROOT
  /\ stack = [c \in Callers |-> <<>>]
  /\ calls = [c \in Callers |-> <<>>]
  /\ rma = NoAccumulator
  /\ guards = NoGuards
  /\ far = NoText

\* path p(s): the client builds its object from a string before it applies
\* anything to it (building it later starts the same behaviours afresh)
Construct ==
  /\ ~crashed
  /\ last.op = "path()"
  /\ \E s \in ConstructStrings[win] :
       /\ p' = path(s)
       /\ last' = Op("path", s, path(s), EmptyPath, 0, path(s))
  /\ UNCHANGED <<win, crashed, fs, cwd, stack, calls, rma, guards, far>>

\* p = <the value the last operation returned>  (path & operator=(const path &))
Assign ==
  /\ ~crashed
  /\ p' = last.result
  /\ last' = Op("=", <<>>, last.result, last.result, 0, last.result)
  /\ UNCHANGED <<win, crashed, fs, cwd, stack, calls, rma, guards, far>>

\* p / s  (operator/(const std::string &) forwards to operator/(path(other)))
Div ==
  /\ ~crashed
  /\ \E s \in OtherStrings[win] :
       LET r == operator_div(p, path(s))
       IN  /\ Len(r.path_) <= MaxPathLen
           /\ last' = Op("/", <<>>, p, path(s), 0, r)
  /\ UNCHANGED <<win, p, crashed, fs, cwd, stack, calls, rma, guards, far>>

\* p /= s
DivAssign ==
  /\ ~crashed
  /\ \E s \in OtherStrings[win] :
       LET r == operator_div_assign(p, path(s))
       IN  /\ Len(r.path_) <= MaxPathLen
           /\ p' = r
           /\ last' = Op("/=", <<>>, p, path(s), 0, r)
  /\ UNCHANGED <<win, crashed, fs, cwd, stack, calls, rma, guards, far>>

\* p / q for the path q the last operation returned  (operator/(const path &))
DivPath ==
  /\ ~crashed
  /\ LET r == operator_div(p, last.result)
     IN  /\ Len(r.path_) <= MaxPathLen
         /\ last' = Op("/", <<>>, p, last.result, 0, r)
  /\ UNCHANGED <<win, p, crashed, fs, cwd, stack, calls, rma, guards, far>>

\* p /= q for the path q the last operation returned  (operator/=(const path &))
DivAssignPath ==
  /\ ~crashed
  /\ LET r == operator_div_assign(p, last.result)
     IN  /\ Len(r.path_) <= MaxPathLen
         /\ p' = r
         /\ last' = Op("/=", <<>>, p, last.result, 0, r)
  /\ UNCHANGED <<win, crashed, fs, cwd, stack, calls, rma, guards, far>>

\* p.parent_path()
ParentPath ==
  /\ ~crashed
  /\ IF parent_path_undefined(p)
     THEN Undefined("parent_path")
     ELSE /\ last' = Op("parent_path", <<>>, p, EmptyPath, 0, parent_path(p))
          /\ UNCHANGED <<win, p, crashed, fs, cwd, stack, calls, rma, guards, far>>

\* p.filename()
Filename ==
  /\ ~crashed
  /\ IF filename_undefined(p)
     THEN Undefined("filename")
     ELSE /\ last' = Op("filename", <<>>, p, EmptyPath, 0, filename(p))
          /\ UNCHANGED <<win, p, crashed, fs, cwd, stack, calls, rma, guards, far>>

\* p.extension()
Extension ==
  /\ ~crashed
  /\ IF extension_undefined(p)
     THEN Undefined("extension")
     ELSE /\ last' = Op("extension", <<>>, p, EmptyPath, 0, extension(p))
          /\ UNCHANGED <<win, p, crashed, fs, cwd, stack, calls, rma, guards, far>>

\* remove_extension(p, n)
RemoveExtension ==
  /\ ~crashed
  /\ \E n \in (0 - 1)..MaxTimes :
       last' = Op("remove_extension", <<>>, p, EmptyPath, n, remove_extension(p, n))
  /\ UNCHANGED <<win, p, crashed, fs, cwd, stack, calls, rma, guards, far>>

Next ==
  \/ Construct
  \/ Assign
  \/ Div
  \/ DivAssign
  \/ DivPath
  \/ DivAssignPath
  \/ ParentPath
  \/ Filename
  \/ Extension
  \/ RemoveExtension

Spec == Init /\ [][Next]_vars

----------------------------------------------------------------------------
(* A client that walks up: p = p.parent_path(), again and again, from a     *)
(* string-built path.  last.arg keeps the string it started from and last.n *)
(* counts the steps taken.                                                  *)

InitAscend ==
  /\ win \in BOOLEAN
  /\ crashed = FALSE
  /\ fs = RootOnly
  /\ cwd = ROOT
  /\ stack = [c \in Callers |-> <<>>]
  /\ calls = [c \in Callers |-> <<>>]
  /\ rma = NoAccumulator
  /\ guards = NoGuards
  /\ far = NoText
  /\ \E s \in ConstructStrings[win] :
       /\ p = path(s)
       /\ last = Op("path", s, path(s), EmptyPath, 0, path(s))

\* the steps a client takes before it gives up: one for each segment of the
\* path it started from, and two more
AscendSteps == Len(path(last.arg).path_as_vector_) + 2

\* p = p.parent_path()
Ascend ==
  /\ ~crashed
  /\ last.n < AscendSteps
  /\ IF parent_path_undefined(p)
     THEN \/ /\ crashed' = TRUE
             /\ UNCHANGED <<p, last>>
          \/ /\ \E g \in GarbageStrings[win] :
                   /\ p' = path(g)
                   /\ last' = Op("parent_path", last.arg, p, EmptyPath, last.n + 1, path(g))
             /\ UNCHANGED crashed
     ELSE /\ p' = parent_path(p)
          /\ last' = Op("parent_path", last.arg, p, EmptyPath, last.n + 1, parent_path(p))
          /\ UNCHANGED crashed
  /\ UNCHANGED <<win, fs, cwd, stack, calls, rma, guards, far>>

NextAscend == Ascend

SpecAscend == InitAscend /\ [][NextAscend]_vars

----------------------------------------------------------------------------
(* Callers of the free functions.  A call runs as a stack of frames, one    *)
(* step per operating-system call, so that other callers and other          *)
(* processes can act between two of its steps.                              *)

\* the arguments handed to the free functions: the path built from one to
\* MaxArgLevels names, relative or absolute, its parent_path(), and the
\* empty path joined with it
RECURSIVE JoinNames(_)
JoinNames(names) ==
  IF Len(names) = 1
  THEN names[1]
  ELSE names[1] \o <<kPreferredSeparator>> \o JoinNames(Tail(names))

RelativeStrings ==
  {JoinNames(names) : names \in UNION {[1..k -> ArgNames] : k \in 1..MaxArgLevels}}

AbsoluteStrings == {<<kPreferredSeparator>> \o s : s \in RelativeStrings}

StringArgs == {path(s) : s \in RelativeStrings \cup AbsoluteStrings}

FsArgs ==
  StringArgs
    \cup {parent_path(x) : x \in StringArgs}
    \cup {operator_div(EmptyPath, path(s)) : s \in RelativeStrings}

\* one frame of a running function: its argument and its local variables
Frame(fn, pc, arg) ==
  [fn |-> fn, pc |-> pc, arg |-> arg, built |-> EmptyPath, it |-> 1,
   status |-> 0, dir |-> <<>>, open |-> FALSE, ret |-> TRUE]

\* the record of one call: fs0 is the file system when it began, trace the
\* changes it asked the operating system for, interfered whether anybody
\* else changed the file system while it ran
NewCall(op, arg, base) ==
  [op |-> op, arg |-> arg, base |-> base, state |-> "running", ret |-> FALSE,
   out |-> EmptyPath, fs0 |-> fs, trace |-> <<>>, interfered |-> FALSE,
   leaked |-> 0]

Cur(c) == calls[c][Len(calls[c])]

Top(c) == stack[c][Len(stack[c])]

Running(c) == stack[c] # <<>>

\* the callers make MaxCalls calls between them; the one call a caller
\* makes again is create_directories
MayCall(c, op) ==
  /\ ~crashed
  /\ ~Running(c)
  /\ Len(calls[1]) + Len(calls[2]) < MaxCalls
  /\ (IF calls[c] = <<>> THEN TRUE
      ELSE op = "create_directories" /\ Cur(c).op = op)

\* the call records once caller c changed the file system: every other
\* caller with a call in progress has been interfered with
Marked(cs, c) ==
  [d \in Callers |->
     IF d # c /\ Running(d)
     THEN [cs[d] EXCEPT ![Len(cs[d])].interfered = TRUE]
     ELSE cs[d]]

Traced(cs, c, sys, s, ok) ==
  [cs EXCEPT ![c][Len(cs[c])].trace = Append(@, [sys |-> sys, path |-> s, ok |-> ok])]

\* caller c's step leaves the file system f2 and the call records cs
Effect(c, f2, cs) ==
  /\ fs' = f2
  /\ calls' = IF f2 # fs THEN Marked(cs, c) ELSE cs

\* the running frame of caller c goes on as frame f
Goto(c, f) == stack' = [stack EXCEPT ![c][Len(stack[c])] = f]

\* the running function of caller c returns the boolean v: to the frame
\* below, or to the client when it is the outermost one
Return(c, v, f2, cs) ==
  LET n == Len(stack[c])
  IN  IF n = 1
      THEN /\ stack' = [stack EXCEPT ![c] = <<>>]
           /\ Effect(c, f2, [cs EXCEPT ![c][Len(cs[c])].state = "returned",
                                       ![c][Len(cs[c])].ret = v])
      ELSE /\ stack' = [stack EXCEPT ![c] =
                          Append(SubSeq(stack[c], 1, n - 2),
                                 [stack[c][n - 1] EXCEPT !.ret = v])]
           /\ Effect(c, f2, cs)

\* a query or a one-call function: it is over in one step
OneStep(c, op, v, f2, sys) ==
  /\ LET cs == [calls EXCEPT ![c] = Append(@, [NewCall(op, p, <<>>) EXCEPT
                                                 !.state = "returned", !.ret = v])]
     IN  Effect(c, f2, IF sys = "" THEN cs ELSE Traced(cs, c, sys, string(p), v))
  /\ UNCHANGED <<win, p, last, crashed, cwd, stack, rma, guards, far>>

\* p.exists()
Exists(c) ==
  /\ MayCall(c, "exists")
  /\ OneStep(c, "exists", exists(fs, cwd, p), fs, "")

\* p.is_directory()
IsDirectory(c) ==
  /\ MayCall(c, "is_directory")
  /\ OneStep(c, "is_directory", is_directory(fs, cwd, p), fs, "")

\* p.is_regular_file()
IsRegularFile(c) ==
  /\ MayCall(c, "is_regular_file")
  /\ OneStep(c, "is_regular_file", is_regular_file(fs, cwd, p), fs, "")

\* remove(p)
Remove(c) ==
  /\ MayCall(c, "remove")
  /\ LET r == remove(fs, cwd, p)
     IN  OneStep(c, "remove", r.ok, r.fs, "remove")

----------------------------------------------------------------------------
(* create_directories *)

\* the body of the loop up to the exists() test, with `p_built = *it` in
\* both branches
p_built_assign(p_built, piece) == path(piece)

\* if (!p_built.empty() || it->empty()) { p_built /= *it; } else { p_built = *it; }
p_built_next(p_built, piece) ==
  IF ~empty(p_built) \/ piece = <<>>
  THEN operator_div_assign(p_built, path(piece))
  ELSE path(piece)

\* the loop going on whatever the status
CdInLoopAnyStatus(f) == f.it <= Len(f.arg.path_as_vector_)

\* it != p.cend() && status == 0
CdInLoop(f) == f.it <= Len(f.arg.path_as_vector_) /\ f.status = 0

\* create_directories(p)
CreateDirectories(c) ==
  /\ MayCall(c, "create_directories")
  /\ stack' = [stack EXCEPT ![c] = <<Frame("create_directories", "loop", p)>>]
  /\ calls' = [calls EXCEPT ![c] = Append(@, NewCall("create_directories", p, <<>>))]
  /\ UNCHANGED <<win, p, last, crashed, fs, cwd, rma, guards, far>>

\* one turn of the loop up to `if (!p_built.exists())`
CdExists(c) ==
  /\ ~crashed
  /\ Running(c)
  /\ LET f == Top(c)
         b == p_built_next(f.built, f.arg.path_as_vector_[f.it])
     IN  /\ f.fn = "create_directories"
         /\ f.pc = "loop"
         /\ CdInLoop(f)
         /\ IF exists(fs, cwd, b)
            THEN Goto(c, [f EXCEPT !.built = b, !.it = f.it + 1])
            ELSE Goto(c, [f EXCEPT !.built = b, !.pc = "mkdir"])
  /\ UNCHANGED <<win, p, last, crashed, fs, cwd, calls, rma, guards, far>>

\* the status kept when "already exists" counts as a failure like any other
status_of_mkdir_no_eexist(r) == IF r.ok THEN 0 ELSE 0 - 1

\* status = mkdir(...); if (status == -1 && errno == EEXIST) { status = 0; }
status_of_mkdir(r) == IF r.ok \/ r.eexist THEN 0 ELSE 0 - 1

\* status = mkdir(...); if (status == -1 && errno == EEXIST) { status = 0; }
CdMkdir(c) ==
  /\ ~crashed
  /\ Running(c)
  /\ LET f == Top(c)
         r == mkdir(fs, cwd, string(f.built))
         status == status_of_mkdir(r)
     IN  /\ f.fn = "create_directories"
         /\ f.pc = "mkdir"
         /\ Goto(c, [f EXCEPT !.status = status, !.it = f.it + 1, !.pc = "loop"])
         /\ Effect(c, r.fs, Traced(calls, c, "mkdir", string(f.built), r.ok))
  /\ UNCHANGED <<win, p, last, crashed, cwd, rma, guards, far>>

\* return status == 0 && p_built.is_directory();
CdReturn(c) ==
  /\ ~crashed
  /\ Running(c)
  /\ LET f == Top(c)
     IN  /\ f.fn = "create_directories"
         /\ f.pc = "loop"
         /\ ~CdInLoop(f)
         /\ Return(c, f.status = 0 /\ is_directory(fs, cwd, f.built), fs, calls)
  /\ UNCHANGED <<win, p, last, crashed, cwd, rma, guards, far>>

----------------------------------------------------------------------------
(* Other processes *)

EnvLocs == UNION {[1..k -> FsNames] : k \in 1..MaxDepth}

\* other processes lay out the file system before the callers begin
MayMeddle == \A c \in Callers : calls[c] = <<>>

Meddle(f2) ==
  /\ fs' = f2
  /\ UNCHANGED <<win, p, last, crashed, cwd, stack, calls, rma, guards, far>>

\* another process makes a file or a directory
EnvCreate ==
  /\ MayMeddle
  /\ Cardinality(DOMAIN fs \ {ROOT, cwd}) < MaxEntries
  /\ \E l \in EnvLocs, kind \in {"file", "dir"} :
       /\ l \notin DOMAIN fs
       /\ IsDir(fs, Parent(l))
       /\ Meddle(With(fs, l, kind))

\* another process changes the mode of a directory
EnvChmod ==
  /\ MayMeddle
  /\ \E l \in DOMAIN fs \ {ROOT, cwd}, kind \in DirKinds :
       /\ IsDir(fs, l)
       /\ fs[l] # kind
       /\ Cardinality({x \in DOMAIN fs \ {l} : fs[x] \in {"dir_nowrite", "dir_noread"}})
            + (IF kind = "dir" THEN 0 ELSE 1) <= MaxRestricted
       /\ Meddle(With(fs, l, kind))

----------------------------------------------------------------------------
(* remove_all  (the #else branch) *)

\* the orders in which readdir() may list the names of a set
Orders(S) ==
  {o \in [1..Cardinality(S) -> S] : \A i, j \in 1..Cardinality(S) : o[i] = o[j] => i = j}

\* the names of the entries of the directory at location l
ChildNames(f, l) == {x[Len(x)] : x \in Children(f, l)}

\* opendir(path): the stream lists ".", ".." and the entries; NULL (ok FALSE)
\* when the path is no directory or the directory cannot be read
opendir(f, wd, s) ==
  LET r == resolve(f, wd, s)
  IN  IF r.ok /\ IsDir(f, r.loc) /\ f[r.loc] # "dir_noread"
      THEN [ok |-> TRUE,
            streams |-> {<<<<DOT>>, <<DOT, DOT>>>> \o o : o \in Orders(ChildNames(f, r.loc))}]
      ELSE [ok |-> FALSE, streams |-> {<<>>}]

Handles(cs, c, d) == [cs EXCEPT ![c][Len(cs[c])].leaked = @ + d]

\* remove_all(p)
RemoveAll(c) ==
  /\ MayCall(c, "remove_all")
  /\ stack' = [stack EXCEPT ![c] = <<Frame("remove_all", "start", p)>>]
  /\ calls' = [calls EXCEPT ![c] = Append(@, NewCall("remove_all", p, <<>>))]
  /\ UNCHANGED <<win, p, last, crashed, fs, cwd, rma, guards, far>>

\* if (!is_directory(p)) ...
RaStart(c) ==
  /\ ~crashed
  /\ Running(c)
  /\ LET f == Top(c)
     IN  /\ f.fn = "remove_all"
         /\ f.pc = "start"
         /\ IF is_directory(fs, cwd, f.arg)
            THEN Goto(c, [f EXCEPT !.pc = "opendir"])
            ELSE Goto(c, [f EXCEPT !.pc = "remove_nondir"])
  /\ UNCHANGED <<win, p, last, crashed, fs, cwd, calls, rma, guards, far>>

\* ... { return rcpputils::fs::remove(p); }
RaRemoveNonDir(c) ==
  /\ ~crashed
  /\ Running(c)
  /\ LET f == Top(c)
         r == remove(fs, cwd, f.arg)
     IN  /\ f.fn = "remove_all"
         /\ f.pc = "remove_nondir"
         /\ Return(c, r.ok, r.fs, Traced(calls, c, "remove", string(f.arg), r.ok))
  /\ UNCHANGED <<win, p, last, crashed, cwd, rma, guards, far>>

\* DIR * dir = opendir(p.string().c_str());  (dir is not compared with NULL)
RaOpendir(c) ==
  /\ ~crashed
  /\ Running(c)
  /\ LET f == Top(c)
         r == opendir(fs, cwd, string(f.arg))
     IN  /\ f.fn = "remove_all"
         /\ f.pc = "opendir"
         /\ \E stream \in r.streams :
              Goto(c, [f EXCEPT !.dir = stream, !.open = r.ok, !.pc = "readdir"])
         /\ calls' = IF r.ok THEN Handles(calls, c, 1) ELSE calls
  /\ UNCHANGED <<win, p, last, crashed, fs, cwd, rma, guards, far>>

\* the test letting ".." through
is_self_entry(d_name) == d_name = <<DOT>>

\* !(strcmp(d_name, ".") != 0 && strcmp(d_name, "..") != 0)
is_pseudo_entry(d_name) == d_name \in {<<DOT>>, <<DOT, DOT>>}

\* while ((directory_entry = readdir(dir)) != nullptr) { strcmp ... sub_path = path(p) / d_name;
\* after the loop: closedir(dir).  readdir(NULL) is undefined: the process
\* ends, or the call reports the end of the directory
RaReaddir(c) ==
  /\ ~crashed
  /\ Running(c)
  /\ LET f == Top(c)
     IN  /\ f.fn = "remove_all"
         /\ f.pc = "readdir"
         /\ IF ~f.open
            THEN \/ /\ crashed' = TRUE
                    /\ UNCHANGED <<stack, calls>>
                 \/ /\ Goto(c, [f EXCEPT !.pc = "remove_self"])
                    /\ UNCHANGED <<crashed, calls>>
            ELSE IF f.dir = <<>>
            THEN /\ Goto(c, [f EXCEPT !.open = FALSE, !.pc = "remove_self"])
                 /\ calls' = Handles(calls, c, 0 - 1)
                 /\ UNCHANGED crashed
            ELSE IF is_pseudo_entry(Head(f.dir))
            THEN /\ Goto(c, [f EXCEPT !.dir = Tail(f.dir)])
                 /\ UNCHANGED <<crashed, calls>>
            ELSE /\ Goto(c, [f EXCEPT !.dir = Tail(f.dir),
                                       !.built = operator_div(f.arg, path(Head(f.dir))),
                                       !.pc = "sub_is_directory"])
                 /\ UNCHANGED <<crashed, calls>>
  /\ UNCHANGED <<win, p, last, fs, cwd, rma, guards, far>>

\* if (sub_path.is_directory() && !rcpputils::fs::remove_all(sub_path)) ...
RaSubIsDirectory(c) ==
  /\ ~crashed
  /\ Running(c)
  /\ LET f == Top(c)
     IN  /\ f.fn = "remove_all"
         /\ f.pc = "sub_is_directory"
         /\ IF is_directory(fs, cwd, f.built)
            THEN stack' = [stack EXCEPT ![c] =
                   Append(SubSeq(stack[c], 1, Len(stack[c]) - 1),
                          [f EXCEPT !.pc = "sub_remove"])
                     \o <<Frame("remove_all", "start", f.built)>>]
            ELSE Goto(c, [f EXCEPT !.ret = TRUE, !.pc = "sub_remove"])
  /\ UNCHANGED <<win, p, last, crashed, fs, cwd, calls, rma, guards, far>>

\* the body of the loop going on to the next entry after a failed removal
RaSubRemoveGoingOn(c) ==
  /\ ~crashed
  /\ Running(c)
  /\ LET f == Top(c)
         r == remove(fs, cwd, f.built)
     IN  /\ f.fn = "remove_all"
         /\ f.pc = "sub_remove"
         /\ Goto(c, [f EXCEPT !.ret = TRUE, !.pc = "readdir"])
         /\ Effect(c, r.fs, Traced(calls, c, "remove", string(f.built), r.ok))
  /\ UNCHANGED <<win, p, last, crashed, cwd, rma, guards, far>>

\* ... { return false; } else if (!rcpputils::fs::remove(sub_path)) { return false; }
\* f.ret is what remove_all(sub_path) returned (TRUE when it was not called)
RaSubRemove(c) ==
  /\ ~crashed
  /\ Running(c)
  /\ LET f == Top(c)
         r == remove(fs, cwd, f.built)
         cs == Traced(calls, c, "remove", string(f.built), r.ok)
     IN  /\ f.fn = "remove_all"
         /\ f.pc = "sub_remove"
         /\ IF ~f.ret
            THEN Return(c, FALSE, fs, calls)
            ELSE IF ~r.ok
            THEN Return(c, FALSE, r.fs, cs)
            ELSE /\ Goto(c, [f EXCEPT !.ret = TRUE, !.pc = "readdir"])
                 /\ Effect(c, r.fs, cs)
  /\ UNCHANGED <<win, p, last, crashed, cwd, rma, guards, far>>

\* rcpputils::fs::remove(p);
RaRemoveSelf(c) ==
  /\ ~crashed
  /\ Running(c)
  /\ LET f == Top(c)
         r == remove(fs, cwd, f.arg)
     IN  /\ f.fn = "remove_all"
         /\ f.pc = "remove_self"
         /\ Goto(c, [f EXCEPT !.pc = "exists"])
         /\ Effect(c, r.fs, Traced(calls, c, "remove", string(f.arg), r.ok))
  /\ UNCHANGED <<win, p, last, crashed, cwd, rma, guards, far>>

\* remove_all() reporting success whatever became of p
remove_all_result_true(f, wd, x) == TRUE

\* !rcpputils::fs::exists(p)
remove_all_result(f, wd, x) == ~exists(f, wd, x)

\* return !rcpputils::fs::exists(p);
RaExists(c) ==
  /\ ~crashed
  /\ Running(c)
  /\ LET f == Top(c)
     IN  /\ f.fn = "remove_all"
         /\ f.pc = "exists"
         /\ Return(c, remove_all_result(fs, cwd, f.arg), fs, calls)
  /\ UNCHANGED <<win, p, last, crashed, cwd, rma, guards, far>>

----------------------------------------------------------------------------
(* The callers of the boolean functions on a POSIX build *)

InitFS ==
  /\ win = FALSE
  /\ p \in FsArgs
  /\ last = Op("path()", <<>>, EmptyPath, EmptyPath, 0, EmptyPath)
  /\ crashed = FALSE
  /\ cwd = <<NAME_B>>
  /\ fs = With(RootOnly, cwd, "dir")
  /\ stack = [c \in Callers |-> <<>>]
  /\ calls = [c \in Callers |-> <<>>]
  /\ rma = NoAccumulator
  /\ guards = NoGuards
  /\ far = NoText

\* a client that makes directories
NextCreate ==
  \/ EnvCreate
  \/ EnvChmod
  \/ CreateDirectories(1)
  \/ CdExists(1)
  \/ CdMkdir(1)
  \/ CdReturn(1)

SpecCreate == InitFS /\ [][NextCreate]_vars

\* a client that queries and removes
NextRemove ==
  \/ EnvCreate
  \/ EnvChmod
  \/ Exists(1)
  \/ IsDirectory(1)
  \/ IsRegularFile(1)
  \/ Remove(1)
  \/ RemoveAll(1)
  \/ RaStart(1)
  \/ RaRemoveNonDir(1)
  \/ RaOpendir(1)
  \/ RaReaddir(1)
  \/ RaSubIsDirectory(1)
  \/ RaSubRemove(1)
  \/ RaRemoveSelf(1)
  \/ RaExists(1)

SpecRemove == InitFS /\ [][NextRemove]_vars

----------------------------------------------------------------------------
(* create_temp_directory *)

MaxSuffixes == 2   \* how many six-character endings the name generator has

XXXXXX == <<"X", "X", "X", "X", "X", "X">>

DIGITS == <<"0", "1", "2", "3", "4", "5", "6", "7", "8", "9">>

\* the six characters the generators put in the place of XXXXXX
Suffixes == {<<"0", "0", "0", "0", "0", DIGITS[k]>> : k \in 1..MaxSuffixes}

\* the template with its last six characters replaced
Filled(template, suffix) == SubSeq(template, 1, Len(template) - 6) \o suffix

\* mkdtemp(template): the generated names are tried until mkdir() of one
\* does not fail with EEXIST; NULL (ok FALSE) when that mkdir() fails for
\* another reason or every name exists
mkdtemp(f, wd, template) ==
  LET tries == {mkdir(f, wd, Filled(template, s)) : s \in Suffixes}
      ended == {r \in tries : ~r.eexist}
  IN  IF ended = {}
      THEN {[fs |-> f, ok |-> FALSE, name |-> template]}
      ELSE {[fs |-> mkdir(f, wd, Filled(template, s)).fs,
             ok |-> mkdir(f, wd, Filled(template, s)).ok,
             name |-> Filled(template, s)] :
               s \in {t \in Suffixes : ~mkdir(f, wd, Filled(template, t)).eexist}}

\* _mktemp_s(template, size): the names access() does not find; it makes
\* no entry.  No name left: the error EEXIST
mktemp_s(f, wd, template) ==
  {Filled(template, s) : s \in {t \in Suffixes : ~access(f, wd, Filled(template, t))}}

\* the base names handed in: a plain one, one beginning with a separator,
\* one holding a separator
BaseNames == {<<"n">>, <<FSLASH, "n">>, <<LETTER, FSLASH, "n">>}

\* the base name every call of a behaviour uses: the one of the first call
SameBase(base) ==
  \A c \in Callers : \A i \in 1..Len(calls[c]) : calls[c][i].base = base

\* the call of caller c ends with std::system_error
Throw(c) ==
  /\ stack' = [stack EXCEPT ![c] = <<>>]
  /\ calls' = [calls EXCEPT ![c][Len(calls[c])].state = "thrown"]
  /\ fs' = fs

\* the call of caller c returns the path x
ReturnPath(c, x, f2, cs) ==
  /\ stack' = [stack EXCEPT ![c] = <<>>]
  /\ Effect(c, f2, [cs EXCEPT ![c][Len(cs[c])].state = "returned",
                              ![c][Len(cs[c])].ret = TRUE,
                              ![c][Len(cs[c])].out = x])

\* create_temp_directory(base_name, p) up to `if (!create_directories(parent_path))`
CreateTempDirectory(c) ==
  /\ MayCall(c, "create_temp_directory")
  /\ \E base_name \in BaseNames :
       LET template_path == base_name \o XXXXXX
           full_template == operator_div(p, path(template_path))
       IN  /\ SameBase(base_name)
           /\ stack' = [stack EXCEPT ![c] =
                 <<[Frame("create_temp_directory", "after_parent", p)
                      EXCEPT !.built = full_template],
                   Frame("create_directories", "loop", p)>>]
           /\ calls' = [calls EXCEPT ![c] =
                 Append(@, NewCall("create_temp_directory", p, base_name))]
  /\ UNCHANGED <<win, p, last, crashed, fs, cwd, rma, guards, far>>

\* { throw } ... #ifdef _WIN32 _mktemp_s(...); final_path{full_template_str};
\* create_directories(final_path) #else mkdtemp(...); final_path{dir_name} #endif
CtAfterParent(c) ==
  /\ ~crashed
  /\ Running(c)
  /\ LET f == Top(c)
     IN  /\ f.fn = "create_temp_directory"
         /\ f.pc = "after_parent"
         /\ IF ~f.ret
            THEN Throw(c)
            ELSE IF win
            THEN LET names == mktemp_s(fs, cwd, string(f.built))
                 IN  IF names = {}
                     THEN Throw(c)
                     ELSE /\ \E name \in names :
                               stack' = [stack EXCEPT ![c] =
                                  <<[f EXCEPT !.built = path(name), !.pc = "after_final"],
                                    Frame("create_directories", "loop", path(name))>>]
                          /\ UNCHANGED <<fs, calls>>
            ELSE \E r \in mkdtemp(fs, cwd, string(f.built)) :
                   IF r.ok
                   THEN ReturnPath(c, path(r.name), r.fs,
                                   Traced(calls, c, "mkdtemp", r.name, TRUE))
                   ELSE Throw(c)
  /\ UNCHANGED <<win, p, last, crashed, cwd, rma, guards, far>>

\* if (!create_directories(final_path)) { throw } ... return final_path;
CtAfterFinal(c) ==
  /\ ~crashed
  /\ Running(c)
  /\ LET f == Top(c)
     IN  /\ f.fn = "create_temp_directory"
         /\ f.pc = "after_final"
         /\ IF ~f.ret
            THEN Throw(c)
            ELSE ReturnPath(c, f.built, fs, calls)
  /\ UNCHANGED <<win, p, last, crashed, cwd, rma, guards, far>>

\* the file systems the callers of create_temp_directory start in
TempLayouts ==
  {RootOnly,
   With(RootOnly, <<NAME_A>>, "dir"),
   With(RootOnly, <<NAME_A>>, "file"),
   With(With(RootOnly, <<NAME_A>>, "dir"), <<NAME_A, NAME_A>>, "dir")}

\* the parents handed in: a relative and an absolute one
TempParents == {path(NAME_A), path(<<kPreferredSeparator>> \o NAME_A)}

InitTemp ==
  /\ win \in BOOLEAN
  /\ p \in TempParents
  /\ last = Op("path()", <<>>, EmptyPath, EmptyPath, 0, EmptyPath)
  /\ crashed = FALSE
  /\ cwd = ROOT
  /\ fs \in TempLayouts
  /\ stack = [c \in Callers |-> <<>>]
  /\ calls = [c \in Callers |-> <<>>]
  /\ rma = NoAccumulator
  /\ guards = NoGuards
  /\ far = NoText

NextTemp ==
  \E c \in Callers :
     \/ CreateTempDirectory(c)
     \/ CdExists(c)
     \/ CdMkdir(c)
     \/ CdReturn(c)
     \/ CtAfterParent(c)
     \/ CtAfterFinal(c)

SpecTemp == InitTemp /\ [][NextTemp]_vars

----------------------------------------------------------------------------
(* Two callers of create_directories at once, on the same path or on a      *)
(* path and one of the paths above it; nobody else touches the file system  *)

\* the file systems the callers start in; the working directory is /b
RaceLayouts ==
  LET base == With(RootOnly, <<NAME_B>>, "dir")
  IN  {base,
       With(base, <<NAME_A>>, "dir"),
       With(base, <<NAME_B, NAME_A>>, "dir"),
       With(base, <<NAME_B, NAME_A>>, "file"),
       With(base, <<NAME_A>>, "dir_nowrite"),
       With(With(base, <<NAME_A>>, "dir"), <<NAME_A, NAME_A>>, "file"),
       With(RootOnly, <<NAME_B>>, "dir_nowrite")}

\* s is the string t or the string of a path above t
IsStringAbove(s, t) ==
  /\ Len(s) <= Len(t)
  /\ SubSeq(t, 1, Len(s)) = s
  /\ (Len(s) < Len(t) => t[Len(s) + 1] = kPreferredSeparator)

\* create_directories(q) for the path q of a string that names p or a
\* directory above p
CreateDirectoriesAbove(c) ==
  /\ MayCall(c, "create_directories")
  /\ \E q \in StringArgs :
       /\ q # p
       /\ IsStringAbove(string(q), string(p))
       /\ stack' = [stack EXCEPT ![c] = <<Frame("create_directories", "loop", q)>>]
       /\ calls' = [calls EXCEPT ![c] = Append(@, NewCall("create_directories", q, <<>>))]
  /\ UNCHANGED <<win, p, last, crashed, fs, cwd, rma, guards, far>>

InitRace ==
  /\ win = FALSE
  /\ p \in StringArgs
  /\ last = Op("path()", <<>>, EmptyPath, EmptyPath, 0, EmptyPath)
  /\ crashed = FALSE
  /\ cwd = <<NAME_B>>
  /\ fs \in RaceLayouts
  /\ stack = [c \in Callers |-> <<>>]
  /\ calls = [c \in Callers |-> <<>>]
  /\ rma = NoAccumulator
  /\ guards = NoGuards
  /\ far = NoText

NextRace ==
  \E c \in Callers :
     \/ CreateDirectories(c)
     \/ CreateDirectoriesAbove(c)
     \/ CdExists(c)
     \/ CdMkdir(c)
     \/ CdReturn(c)

SpecRace == InitRace /\ [][NextRace]_vars

----------------------------------------------------------------------------
(* RollingMeanAccumulator<T>  (include/rcpputils/rolling_mean_accumulator.hpp) *)
(* T is double, or a signed integer type as wide as size_t.  The values     *)
(* handed in are small integers, which double holds exactly; a double mean  *)
(* is kept as the fraction num / den.                                       *)

MaxWindow == 3       \* largest rolling_window_size
MaxValue == 2        \* the values accumulated are -MaxValue..MaxValue
MaxAccumulates == 4  \* most accumulate() calls on the object
SizeBits == 8        \* bits of size_t and of the integer T, scaled down

Values == (0 - MaxValue)..MaxValue

\* the conversion of a signed integer to size_t
to_size_t(x) == x % (2 ^ SizeBits)

\* the conversion of a size_t value to the signed integer type T
from_size_t(u) == IF u >= 2 ^ (SizeBits - 1) THEN u - 2 ^ SizeBits ELSE u

\* the constructor: buffer_(rolling_window_size, 0.0), next_insert_(0),
\* sum_(0.0), buffer_filled_(false)
RollingMeanAccumulator(integral, rolling_window_size) ==
  [made |-> TRUE,
   integral |-> integral,
   buffer_ |-> [i \in 1..rolling_window_size |-> 0],
   next_insert_ |-> 0,
   sum_ |-> 0,
   buffer_filled_ |-> FALSE,
   accumulated |-> <<>>,     \* every value handed to accumulate(), in order
   mean |-> <<>>]            \* <<what getRollingMean() returned>>, if just called

\* void accumulate(T val)   (buffer_ is indexed from 0 in the code)
accumulate(a, val) ==
  LET next == a.next_insert_ + 1
  IN  [a EXCEPT !.sum_ = (a.sum_ - a.buffer_[a.next_insert_ + 1]) + val,
                !.buffer_[a.next_insert_ + 1] = val,
                !.buffer_filled_ = a.buffer_filled_ \/ next >= Len(a.buffer_),
                !.next_insert_ = next % Len(a.buffer_),
                !.accumulated = Append(a.accumulated, val),
                !.mean = <<>>]

\* size_t valid_data_count = buffer_filled_ * buffer_.size() + !buffer_filled_ * next_insert_;
valid_data_count(a) == IF a.buffer_filled_ THEN Len(a.buffer_) ELSE a.next_insert_

\* return sum_ / valid_data_count;  for an integer T the division is done in
\* size_t (the usual arithmetic conversions) and its result converted to T
getRollingMean(a) ==
  IF a.integral
  THEN [num |-> from_size_t(to_size_t(a.sum_) \div valid_data_count(a)), den |-> 1]
  ELSE [num |-> a.sum_, den |-> valid_data_count(a)]

RmaConstruct ==
  /\ ~rma.made
  /\ \E integral \in BOOLEAN, n \in 1..MaxWindow :
       rma' = RollingMeanAccumulator(integral, n)
  /\ UNCHANGED <<win, p, last, crashed, fs, cwd, stack, calls, guards, far>>

RmaAccumulate ==
  /\ ~crashed
  /\ rma.made
  /\ Len(rma.accumulated) < MaxAccumulates
  /\ \E val \in Values : rma' = accumulate(rma, val)
  /\ UNCHANGED <<win, p, last, crashed, fs, cwd, stack, calls, guards, far>>

\* assert(valid_data_count > 0) ends the process when nothing was accumulated
RmaGetRollingMean ==
  /\ ~crashed
  /\ rma.made
  /\ IF valid_data_count(rma) > 0
     THEN /\ rma' = [rma EXCEPT !.mean = <<getRollingMean(rma)>>]
          /\ UNCHANGED crashed
     ELSE /\ crashed' = TRUE
          /\ UNCHANGED rma
  /\ UNCHANGED <<win, p, last, fs, cwd, stack, calls, guards, far>>

InitMean ==
  /\ win = FALSE
  /\ p = EmptyPath
  /\ last = Op("path()", <<>>, EmptyPath, EmptyPath, 0, EmptyPath)
  /\ crashed = FALSE
  /\ fs = RootOnly
  /\ cwd = ROOT
  /\ stack = [c \in Callers |-> <<>>]
  /\ calls = [c \in Callers |-> <<>>]
  /\ rma = NoAccumulator
  /\ guards = NoGuards
  /\ far = NoText

NextMean ==
  \/ RmaConstruct
  \/ RmaAccumulate
  \/ RmaGetRollingMean

SpecMean == InitMean /\ [][NextMean]_vars

----------------------------------------------------------------------------
(* scope_exit<CallableT>  (include/rcpputils/scope_exit.hpp) *)

MaxGuards == 4   \* most scope_exit objects the client constructs

\* explicit scope_exit(CallableT && callable); bool cancelled_{false};
scope_exit ==
  [alive |-> TRUE,
   cancelled_ |-> FALSE,
   invoked |-> 0,           \* how often callable_ has run
   cancel_called |-> FALSE] \* whether the client ever called cancel()

\* the destructor running the callable whatever cancelled_ says
destroy_always_call(g) ==
  [g EXCEPT !.alive = FALSE, !.invoked = g.invoked + 1]

\* ~scope_exit() { if (!cancelled_) { callable_(); } }
destroy(g) ==
  [g EXCEPT !.alive = FALSE,
            !.invoked = IF ~g.cancelled_ THEN g.invoked + 1 ELSE g.invoked]

\* void cancel() { cancelled_ = true; }
cancel(g) == [g EXCEPT !.cancelled_ = TRUE, !.cancel_called = TRUE]

\* auto guard = make_scope_exit(callable);  RCPPUTILS_SCOPE_EXIT(code);
MakeScopeExit ==
  /\ Len(guards) < MaxGuards
  /\ guards' = Append(guards, scope_exit)
  /\ UNCHANGED <<win, p, last, crashed, fs, cwd, stack, calls, rma, far>>

\* guard.cancel(), as often as the client likes
Cancel ==
  /\ \E i \in 1..Len(guards) :
       /\ guards[i].alive
       /\ guards' = [guards EXCEPT ![i] = cancel(guards[i])]
  /\ UNCHANGED <<win, p, last, crashed, fs, cwd, stack, calls, rma, far>>

\* the object's lifetime ends (scope left, exception unwinding, delete)
Destroy ==
  /\ \E i \in 1..Len(guards) :
       /\ guards[i].alive
       /\ guards' = [guards EXCEPT ![i] = destroy(guards[i])]
  /\ UNCHANGED <<win, p, last, crashed, fs, cwd, stack, calls, rma, far>>

NextScope ==
  \/ MakeScopeExit
  \/ Cancel
  \/ Destroy

InitScope == InitMean

SpecScope == InitScope /\ [][NextScope]_vars

----------------------------------------------------------------------------
(* find_and_replace  (include/rcpputils/find_and_replace.hpp) *)
(* Positions are counted from 0 as in the code; a string is a sequence.     *)

MaxTextLen == 3      \* longest input
MaxPatternLen == 2   \* longest find and replace

NPOS == 0 - 1

TextChars == {LETTER, "b"}

Texts(n) == UNION {[1..k -> TextChars] : k \in 0..n}

\* whether sub stands in s at position pos
StandsAt(s, sub, pos) ==
  /\ pos + Len(sub) <= Len(s)
  /\ SubSeq(s, pos + 1, pos + Len(sub)) = sub

\* std::basic_string::find(str, pos)
string_find(s, sub, from) ==
  LET hits == {i \in from..(Len(s) - Len(sub)) : StandsAt(s, sub, i)}
  IN  IF hits = {} THEN NPOS ELSE CHOOSE i \in hits : \A j \in hits : i <= j

\* std::basic_string::replace(pos, count, str)
string_replace(s, pos, count, str) ==
  SubSeq(s, 1, pos) \o str \o SubSeq(s, pos + count + 1, Len(s))

\* the search going on right after the text that was found
search_after_found(pos, find_len, replace_len) == pos + find_len

\* pos + replace_len: the search goes on after the text put in
search_from(pos, find_len, replace_len) == pos + replace_len

\* find_and_replace(input, find, replace): output = input; find_len, replace_len
FarCall ==
  /\ far.pc = "idle"
  /\ \E input \in Texts(MaxTextLen), find \in Texts(MaxPatternLen),
        repl \in Texts(MaxPatternLen) :
       far' = [pc |-> "begin", input |-> input, find |-> find, replace |-> repl,
               output |-> input, pos |-> NPOS, turns |-> 0]
  /\ UNCHANGED <<win, p, last, crashed, fs, cwd, stack, calls, rma, guards>>

\* if (find == replace) return output; if (0u == find_len) return output;
\* pos = output.find(find);
FarBegin ==
  /\ far.pc = "begin"
  /\ far' = IF far.find = far.replace \/ Len(far.find) = 0
            THEN [far EXCEPT !.pc = "done"]
            ELSE [far EXCEPT !.pc = "loop",
                             !.pos = string_find(far.output, far.find, 0)]
  /\ UNCHANGED <<win, p, last, crashed, fs, cwd, stack, calls, rma, guards>>

\* while (pos != npos) { output.replace(pos, find_len, replace);
\*                        pos = output.find(find, pos + replace_len); }
FarLoop ==
  /\ far.pc = "loop"
  /\ far.pos # NPOS
  /\ LET out == string_replace(far.output, far.pos, Len(far.find), far.replace)
     IN  far' = [far EXCEPT
                   !.output = out,
                   !.pos = string_find(out, far.find,
                             search_from(far.pos, Len(far.find), Len(far.replace))),
                   !.turns = far.turns + 1]
  /\ UNCHANGED <<win, p, last, crashed, fs, cwd, stack, calls, rma, guards>>

\* return output;
FarReturn ==
  /\ far.pc = "loop"
  /\ far.pos = NPOS
  /\ far' = [far EXCEPT !.pc = "done"]
  /\ UNCHANGED <<win, p, last, crashed, fs, cwd, stack, calls, rma, guards>>

NextReplace ==
  \/ FarCall
  \/ FarBegin
  \/ FarLoop
  \/ FarReturn

InitReplace == InitMean

SpecReplace == InitReplace /\ [][NextReplace]_vars

----------------------------------------------------------------------------
(* Vocabulary of the properties *)

NonPreferredSeparator == IF win THEN FSLASH ELSE BSLASH

Contains(s, c) == \E i \in 1..Len(s) : s[i] = c

\* the object is what the string constructor builds from its own string form
FromString(x) == x = path(x.path_)

TypeOK ==
  /\ win \in BOOLEAN
  /\ crashed \in BOOLEAN
  /\ p.path_ \in Seq(Char(win))
  /\ last.result.path_ \in Seq(Char(win))

\* the segments are what splitting the string form on the separator gives
InStep(x) == x.path_as_vector_ = split(x.path_, kPreferredSeparator, FALSE)

EndsInSeparator(s) == s # <<>> /\ s[Len(s)] = kPreferredSeparator

IsJoin == last.op \in {"/", "/="}

----------------------------------------------------------------------------
(* Properties *)

\* C1: no path the client holds or is handed (built by the string constructor,
\* or by any sequence of operator/, operator/=, parent_path(), filename(),
\* extension() and remove_extension()) has the non-preferred separator in its
\* string form.
C1_SeparatorInvariant ==
  /\ ~Contains(string(p), NonPreferredSeparator)
  /\ ~Contains(string(last.result), NonPreferredSeparator)
  /\ ~Contains(string(last.other), NonPreferredSeparator)

\* a string holding the non-preferred separator was given to the constructor
C1_Witness ==
  /\ last.op = "path"
  /\ Contains(last.arg, NonPreferredSeparator)
  /\ Contains(last.arg, kPreferredSeparator)
  /\ Len(string(p)) = Len(last.arg)

\* C2 (as claimed): after any sequence of string construction, copy, operator/,
\* operator/= and parent_path(), the segment sequence equals the split of the
\* current string form on the preferred separator.
C2_SegmentsInStep ==
  last.op \in {"path", "=", "/", "/=", "parent_path"} => InStep(last.result) /\ InStep(p)

\* C3: joining an absolute right side gives exactly the right side, string
\* form and segments; operator/= leaves the object equal to it.
C3_AbsoluteJoinResets ==
  (IsJoin /\ is_absolute(last.other)) =>
     /\ last.result = last.other
     /\ (last.op = "/=" => p = last.other)

\* a non-empty left side was joined with a different, absolute right side
C3_Witness ==
  /\ IsJoin
  /\ is_absolute(last.other)
  /\ ~empty(last.self)
  /\ last.self # last.other
  /\ last.result = last.other

\* C4: joining a relative right side onto a left side that does not end in the
\* separator gives left + separator + right; onto one that does, left + right;
\* the segments are the left segments followed by the right segments.
C4_RelativeJoin ==
  (IsJoin /\ ~is_absolute(last.other)) =>
     /\ ~EndsInSeparator(string(last.self)) =>
          string(last.result) =
            string(last.self) \o <<kPreferredSeparator>> \o string(last.other)
     /\ EndsInSeparator(string(last.self)) =>
          string(last.result) = string(last.self) \o string(last.other)
     /\ last.result.path_as_vector_ =
          last.self.path_as_vector_ \o last.other.path_as_vector_

\* a left side ending in the separator was joined with a relative right side
C4_Witness ==
  /\ IsJoin
  /\ ~is_absolute(last.other)
  /\ ~empty(last.other)
  /\ EndsInSeparator(string(last.self))
  /\ Len(last.self.path_as_vector_) >= 1
  /\ string(last.result) = string(last.self) \o string(last.other)

\* C5 (as claimed): joining a relative right side onto the empty path inserts
\* no separator: the result is the right side's string and is relative.
C5_EmptyLeftNoSeparator ==
  (IsJoin /\ empty(last.self) /\ ~is_absolute(last.other)) =>
     /\ string(last.result) = string(last.other)
     /\ ~is_absolute(last.result)

\* C5 (amended): joining a relative right side onto the empty path inserts one
\* separator: the result is separator + right side's string, an absolute path.
C5_EmptyLeftSeparator ==
  (IsJoin /\ empty(last.self) /\ ~is_absolute(last.other)) =>
     /\ string(last.result) = <<kPreferredSeparator>> \o string(last.other)
     /\ is_absolute(last.result)

\* the empty path was joined with a non-empty relative right side
C5_Witness ==
  /\ IsJoin
  /\ empty(last.self)
  /\ ~is_absolute(last.other)
  /\ ~empty(last.other)
  /\ is_absolute(last.result)

\* parent_path() / filename() of x compares equal to x
Recomposes(x) == operator_eq(operator_div(parent_path(x), filename(x)), x)

\* the root alone: separators only, or <drive>:\ on Windows
IsRoot(x) ==
  \/ (~empty(x) /\ \A i \in 1..Len(string(x)) : string(x)[i] = kPreferredSeparator)
  \/ (is_absolute_with_drive_letter(string(x)) /\ Len(string(x)) = 3)

\* no separator directly follows another and none ends the string
NoDuplicateOrTrailingSeparator(s) ==
  /\ ~EndsInSeparator(s)
  /\ \A i \in 1..(Len(s) - 1) :
       ~(s[i] = kPreferredSeparator /\ s[i + 1] = kPreferredSeparator)

\* C6 (as claimed): every string-built, non-empty, non-root path with two or
\* more segments (duplicate or trailing separators included) compares equal
\* to parent_path() / filename().
C6_RoundTripAll ==
  (FromString(p) /\ ~empty(p) /\ ~IsRoot(p) /\ Len(p.path_as_vector_) >= 2)
     => Recomposes(p)

\* under the Windows policy, a leading separator directly followed by ":\":
\* is_absolute_with_drive_letter() takes the separator for the drive letter
SeparatorAsDriveLetter(s) ==
  is_absolute_with_drive_letter(s) /\ s[1] = kPreferredSeparator

\* C6 (amended): every string-built, non-empty, non-root path with two or more
\* segments whose string has no duplicate and no trailing separator (and,
\* on Windows, does not open with a separator followed by ":\") compares
\* equal to parent_path() / filename().
C6_RoundTripCanonical ==
  (/\ FromString(p) /\ ~empty(p) /\ ~IsRoot(p) /\ Len(p.path_as_vector_) >= 2
   /\ NoDuplicateOrTrailingSeparator(string(p))
   /\ ~SeparatorAsDriveLetter(string(p)))
     => Recomposes(p)

\* parent_path() was taken of an absolute three-segment path, and joining the
\* value it returned with filename() gives the path back
C6_Witness ==
  /\ last.op = "parent_path"
  /\ last.self = p
  /\ FromString(p)
  /\ is_absolute(p)
  /\ Len(p.path_as_vector_) = 3
  /\ NoDuplicateOrTrailingSeparator(string(p))
  /\ ~SeparatorAsDriveLetter(string(p))
  /\ ~empty(last.result)
  /\ operator_eq(operator_div(last.result, filename(p)), p)

\* the string opens with a drive letter followed by ":\" (Windows policy)
HasDriveLetter(s) ==
  win /\ Len(s) >= 3 /\ s[1] = LETTER /\ s[2] = COLON /\ s[3] = BSLASH

\* C7: parent_path() of a string-built path: the empty path for the empty
\* path; for one segment, "." when relative and the root alone when absolute
\* (the separator, or <drive>:\ for a drive letter); for a two-segment
\* drive-letter path, <drive>:\ with the separator kept.
C7_ParentPathEdgeCases ==
  (last.op = "parent_path" /\ FromString(last.self)) =>
     LET x == last.self
         n == Len(x.path_as_vector_)
     IN  /\ empty(x) => (string(last.result) = <<>> /\ last.result.path_as_vector_ = <<>>)
         /\ (n = 1 /\ ~is_absolute(x)) => string(last.result) = <<DOT>>
         /\ (n = 1 /\ is_absolute(x) /\ string(x)[1] = kPreferredSeparator) =>
               string(last.result) = <<kPreferredSeparator>>
         /\ (n \in {1, 2} /\ HasDriveLetter(string(x))) =>
               string(last.result) = SubSeq(string(x), 1, 3)

\* parent_path() was taken of a two-segment drive-letter path such as a:\a
C7_Witness ==
  /\ last.op = "parent_path"
  /\ FromString(last.self)
  /\ Len(last.self.path_as_vector_) = 2
  /\ HasDriveLetter(string(last.self))
  /\ string(last.result) = <<LETTER, COLON, BSLASH>>

\* C8: filename() of a string-built path is the last element of its segment
\* sequence, the empty path for the empty path, and holds no separator.
C8_Filename ==
  (last.op = "filename" /\ FromString(last.self)) =>
     LET segments == split(string(last.self), kPreferredSeparator, FALSE)
     IN  /\ empty(last.self) =>
              (string(last.result) = <<>> /\ last.result.path_as_vector_ = <<>>)
         /\ ~empty(last.self) =>
              string(last.result) = segments[Len(segments)]
         /\ ~Contains(string(last.result), kPreferredSeparator)

\* filename() was taken of a string-built path of two different segments
C8_Witness ==
  /\ last.op = "filename"
  /\ FromString(last.self)
  /\ Len(last.self.path_as_vector_) = 2
  /\ last.self.path_as_vector_[1] # last.self.path_as_vector_[2]
  /\ string(last.result) = last.self.path_as_vector_[2]
  /\ ~empty(last.result)

\* the text of s after its last '.'
AfterLastDot(s) == SubSeq(s, find_last_of(s, DOT) + 1, Len(s))

\* C9 (as claimed): extension() of any path string, the empty one and those
\* ending in '.' included, is the empty path when the string has no '.', and
\* otherwise '.' followed by the text after the last '.'.
C9_Extension ==
  /\ ~(crashed /\ extension_undefined(p))
  /\ last.op = "extension" =>
       IF Contains(string(last.self), DOT)
       THEN string(last.result) = <<DOT>> \o AfterLastDot(string(last.self))
       ELSE string(last.result) = <<>>

NumberOfDots(s) == Cardinality({i \in 1..Len(s) : s[i] = DOT})

\* s cut just before its k-th last '.', for 1 <= k <= NumberOfDots(s)
BeforeKthLastDot(s, k) ==
  LET i == CHOOSE j \in 1..Len(s) :
             s[j] = DOT /\ Cardinality({m \in j..Len(s) : s[m] = DOT}) = k
  IN  SubSeq(s, 1, i - 1)

Min(a, b) == IF a < b THEN a ELSE b

\* C10: remove_extension(p, n) returns p's string cut just before its k-th
\* last '.', k = min(n, number of '.'); p unchanged when n <= 0 or p has no '.'.
C10_RemoveExtension ==
  last.op = "remove_extension" =>
     LET s == string(last.self)
         k == Min(last.n, NumberOfDots(s))
     IN  IF last.n <= 0 \/ NumberOfDots(s) = 0
         THEN last.result = last.self
         ELSE string(last.result) = BeforeKthLastDot(s, k)

\* three removals were asked of a string with two '.' and text before them
C10_Witness ==
  /\ last.op = "remove_extension"
  /\ last.n = 3
  /\ NumberOfDots(string(last.self)) = 2
  /\ string(last.self)[1] = LETTER
  /\ string(last.result) = <<LETTER>>

\* C11 (as claimed): is_absolute() is true exactly when the normalized string
\* begins with the preferred separator or, under the Windows policy only, its
\* first three characters are a letter, ':' and '\'; so it is false for the
\* empty path and, under Windows, false when the character before ":\" is not
\* a letter.
C11_IsAbsolute ==
  is_absolute(p) <=>
     (\/ (Len(string(p)) > 0 /\ string(p)[1] = kPreferredSeparator)
      \/ HasDriveLetter(string(p)))

----------------------------------------------------------------------------
(* Vocabulary of the properties of the free functions *)

\* the latest call of caller c has returned to the client
Returned(c) == calls[c] # <<>> /\ Cur(c).state = "returned"

\* ... and nobody else changed the file system while it ran
ReturnedAlone(c, op) == Returned(c) /\ Cur(c).op = op /\ ~Cur(c).interfered

\* the names in the string form
Names(x) == split(string(x), kPreferredSeparator, TRUE)

\* the location the string form names, read name by name
LexicalLoc(x) ==
  (IF string(x) # <<>> /\ string(x)[1] = kPreferredSeparator THEN ROOT ELSE cwd)
    \o Names(x)

PlainNames(x) == \A i \in 1..Len(Names(x)) : Names(x)[i] \in FsNames

\* every proper prefix of location l that exists in f is a writable directory
PrefixesWritable(f, l) ==
  \A k \in 0..(Len(l) - 1) :
     SubSeq(l, 1, k) \in DOMAIN f => f[SubSeq(l, 1, k)] \in {"dir", "dir_noread"}

\* the entries of f at or below location l
Tree(f, l) == {x \in DOMAIN f : Len(x) >= Len(l) /\ SubSeq(x, 1, Len(l)) = l}

\* the first call of the caller was create_directories on a string-built
\* multi-level path that did not exist, below writable directories
C12_Applies(c) ==
  /\ calls[c] # <<>>
  /\ LET first == calls[c][1]
     IN  /\ first.op = "create_directories"
         /\ FromString(first.arg)
         /\ PlainNames(first.arg)
         /\ Len(Names(first.arg)) >= 2
         /\ ~exists(first.fs0, cwd, first.arg)
         /\ PrefixesWritable(first.fs0, LexicalLoc(first.arg))

\* C12: from a file system where the multi-level path p does not exist and
\* its existing prefixes are writable directories, create_directories(p)
\* called twice returns true both times, is_directory(p) holds after each
\* call, and the second call changes nothing.
C12_CreateDirectoriesTwice ==
  \A c \in Callers :
     (C12_Applies(c) /\ ReturnedAlone(c, "create_directories")) =>
        /\ Cur(c).ret
        /\ is_directory(fs, cwd, Cur(c).arg)
        /\ (Len(calls[c]) >= 2 => fs = Cur(c).fs0)

\* the second call returned after the first one had made two directories
C12_Witness ==
  /\ C12_Applies(1)
  /\ Len(calls[1]) = 2
  /\ ReturnedAlone(1, "create_directories")
  /\ Len(calls[1][1].trace) = 2
  /\ \A i \in 1..2 : calls[1][1].trace[i].ok
  /\ Cur(1).trace = <<>>
  /\ Cur(1).ret

\* C13 (as claimed): for every path built by the string constructor,
\* operator/ and parent_path(), every file system and working directory, when
\* create_directories(p) returns true the location p.string() names exists
\* and is a directory.
C13_CreateDirectoriesSound ==
  \A c \in Callers :
     (ReturnedAlone(c, "create_directories") /\ Cur(c).ret) =>
        stat_is_dir(fs, cwd, string(Cur(c).arg))

\* the directory named by the argument held entries before remove_all():
\* files and directories, each directory of the tree readable and writable,
\* as is the directory the argument lies in
C14_Applies(c) ==
  /\ calls[c] # <<>>
  /\ LET call == Cur(c)
         l == resolve(call.fs0, cwd, string(call.arg)).loc
     IN  /\ call.op = "remove_all"
         /\ is_directory(call.fs0, cwd, call.arg)
         /\ l # ROOT
         /\ ~EndsInDot(string(call.arg))
         /\ \A x \in Tree(call.fs0, l) \cup {Parent(l)} :
               call.fs0[x] \in {"file", "dir"}
         /\ \E x \in Tree(call.fs0, l) : x # l /\ call.fs0[x] = "dir"
         /\ \E x \in Tree(call.fs0, l) : call.fs0[x] = "file"
         /\ cwd \notin Tree(call.fs0, l)

\* C14 (as claimed): remove_all(p) on a directory whose tree holds files and
\* sub-directories, all removable, returns true, and afterwards p does not
\* exist and no entry of its tree remains.
C14_RemoveAllTree ==
  \A c \in Callers :
     (C14_Applies(c) /\ ReturnedAlone(c, "remove_all")) =>
        LET l == resolve(Cur(c).fs0, cwd, string(Cur(c).arg)).loc
        IN  /\ Cur(c).ret
            /\ ~exists(fs, cwd, Cur(c).arg)
            /\ Tree(fs, l) = {}

Removals(call) == {i \in 1..Len(call.trace) : call.trace[i].sys = "remove"}

\* C16: when removing a child fails, remove_all(p) returns false, asks for no
\* removal after the failed one (not of a later child, not of p) and p still
\* exists; p is removed only when every removal of a child succeeded.
C16_RemoveAllFailFast ==
  \A c \in Callers :
     (ReturnedAlone(c, "remove_all") /\ is_directory(Cur(c).fs0, cwd, Cur(c).arg)) =>
        LET call == Cur(c)
            failed == {i \in Removals(call) :
                         ~call.trace[i].ok /\ call.trace[i].path # string(call.arg)}
        IN  /\ failed # {} =>
                 /\ ~call.ret
                 /\ \A i \in failed : i = Len(call.trace)
                 /\ \A i \in Removals(call) : call.trace[i].path # string(call.arg)
                 /\ exists(fs, cwd, call.arg)
            /\ ~exists(fs, cwd, call.arg) =>
                 \A i \in Removals(call) : call.trace[i].ok

\* the first child listed could not be removed and the directory held a
\* second child: the call returned false after that one failed removal
C16_Witness ==
  /\ ReturnedAlone(1, "remove_all")
  /\ is_directory(Cur(1).fs0, cwd, Cur(1).arg)
  /\ Cardinality(Children(Cur(1).fs0, resolve(Cur(1).fs0, cwd, string(Cur(1).arg)).loc)) = 2
  /\ Len(Cur(1).trace) = 1
  /\ ~Cur(1).trace[1].ok
  /\ ~Cur(1).ret
  /\ fs = Cur(1).fs0

\* C17: remove(p) returns true exactly when p existed, a file or an empty
\* directory, and this call removed it; for a path that does not exist and
\* for a directory with entries it returns false and leaves the file system
\* as it was; it never removes another entry.
C17_RemoveSingleLevel ==
  \A c \in Callers :
     ReturnedAlone(c, "remove") =>
        LET call == Cur(c)
            r == resolve(call.fs0, cwd, string(call.arg))
            existed == r.ok /\ r.loc \in DOMAIN call.fs0
        IN  /\ call.ret <=> (existed /\ r.loc \notin DOMAIN fs)
            /\ (~existed \/ Children(call.fs0, r.loc) # {}) => (~call.ret /\ fs = call.fs0)
            /\ \A x \in DOMAIN call.fs0 \ {r.loc} : x \in DOMAIN fs /\ fs[x] = call.fs0[x]
            /\ DOMAIN fs \subseteq DOMAIN call.fs0

\* remove() was refused on a directory holding an entry
C17_Witness ==
  /\ ReturnedAlone(1, "remove")
  /\ is_directory(Cur(1).fs0, cwd, Cur(1).arg)
  /\ Children(Cur(1).fs0, resolve(Cur(1).fs0, cwd, string(Cur(1).arg)).loc) # {}
  /\ ~Cur(1).ret
  /\ fs = Cur(1).fs0

\* C18 (as claimed): exists, is_directory, is_regular_file,
\* create_directories, remove and remove_all complete and return a boolean in
\* every file system state; none ends the process.
C18_NeverFailsAbnormally == ~crashed

\* the calls of create_temp_directory that returned a path: <<caller, index>>
TempReturns ==
  {ci \in Callers \X (1..MaxCalls) :
     /\ ci[2] <= Len(calls[ci[1]])
     /\ calls[ci[1]][ci[2]].op = "create_temp_directory"
     /\ calls[ci[1]][ci[2]].state = "returned"}

\* C19 (as claimed): every successful create_temp_directory() returns a path
\* that is a directory, did not exist before the call and holds no entries;
\* two successful calls with the same base name and parent, one after the
\* other or interleaved, return different paths.
C19_TempFreshAndUnique ==
  /\ \A ci \in TempReturns :
        LET call == calls[ci[1]][ci[2]]
        IN  /\ is_directory(fs, cwd, call.out)
            /\ ~exists(call.fs0, cwd, call.out)
            /\ Children(fs, resolve(fs, cwd, string(call.out)).loc) = {}
  /\ \A ci, dj \in TempReturns :
        ci # dj => calls[ci[1]][ci[2]].out # calls[dj[1]][dj[2]].out

\* C20 (as claimed): for every base name, one beginning with or holding a
\* separator included, and every parent, a successful call returns a
\* directory that is a direct child of parent, named base_name followed by
\* six generated characters.
C20_TempPlacement ==
  \A ci \in TempReturns :
     LET call == calls[ci[1]][ci[2]]
         made == resolve(fs, cwd, string(call.out)).loc
     IN  /\ made # ROOT
         /\ Parent(made) = resolve(fs, cwd, string(call.arg)).loc
         /\ made[Len(made)] \in {call.base \o s : s \in Suffixes}

\* C26 (as claimed): every path reached by string construction, operator/,
\* operator/= and parent_path() that has a non-empty string form has at least
\* one segment, so filename() and parent_path() never read an empty segment
\* sequence.
C26_NonEmptyHasSegments ==
  /\ ~(crashed /\ (parent_path_undefined(p) \/ filename_undefined(p)))
  /\ last.op \in {"path", "=", "/", "/=", "parent_path"} =>
       \A x \in {p, last.result} : ~empty(x) => x.path_as_vector_ # <<>>

\* C27 (as claimed): walking up from a string-built path, every
\* parent_path() call is well defined, a step on a path with two or more
\* segments gives a strictly shorter string, and after as many steps as the
\* first path has segments plus one the path no longer changes.
C27_AscendingTerminates ==
  /\ ~crashed
  /\ last.op = "parent_path" =>
       /\ ~parent_path_undefined(last.self)
       /\ Len(last.self.path_as_vector_) >= 2 =>
             Len(string(last.result)) < Len(string(last.self))
       /\ last.n = AscendSteps => operator_eq(last.result, last.self)

\* C30 (as claimed): for every path whose string holds a '.', those ending
\* in '.' included, the string of remove_extension(p, 1) followed by the
\* string of p.extension() is the string of p.
C30_ExtensionRoundTrip ==
  (last.op = "extension" /\ Contains(string(last.self), DOT)) =>
     string(remove_extension(last.self, 1)) \o string(last.result) = string(last.self)

\* the call could succeed where it began: its argument is a string-built
\* path of plain names, and what exists of it and of the paths above it is
\* a writable directory
C21_Applies(call) ==
  /\ call.op = "create_directories"
  /\ FromString(call.arg)
  /\ PlainNames(call.arg)
  /\ PrefixesWritable(call.fs0, LexicalLoc(call.arg))
  /\ LexicalLoc(call.arg) \in DOMAIN call.fs0 => IsDir(call.fs0, LexicalLoc(call.arg))

\* C21: two callers run create_directories on the same path or on
\* overlapping paths, their exists() tests and mkdir calls interleaved in
\* any way, and nobody else changes the file system: a mkdir that finds the
\* directory made by the other caller counts as done, every call returns
\* true and afterwards each argument is a directory.
C21_ConcurrentCreate ==
  \A c \in Callers :
     (Returned(c) /\ C21_Applies(Cur(c))) =>
        /\ Cur(c).ret
        /\ is_directory(fs, cwd, Cur(c).arg)

\* both callers returned true, one of them after its mkdir found the
\* directory the other had made in between
C21_Witness ==
  /\ \A c \in Callers : Returned(c) /\ C21_Applies(Cur(c)) /\ Cur(c).ret
  /\ Cur(1).interfered
  /\ \E i \in 1..Len(Cur(1).trace) : ~Cur(1).trace[i].ok

\* C22: when mkdir fails for a prefix of p with an error other than
\* "already exists", create_directories asks for no further directory and
\* returns false, without ending abnormally; it returns false as well when p
\* is a regular file.
C22_StopsOnError ==
  /\ ~crashed
  /\ \A c \in Callers :
        ReturnedAlone(c, "create_directories") =>
           LET call == Cur(c)
               failed == {i \in 1..Len(call.trace) : ~call.trace[i].ok}
           IN  /\ failed # {} => (~call.ret /\ failed = {Len(call.trace)})
               /\ (FromString(call.arg) /\ is_regular_file(call.fs0, cwd, call.arg)) =>
                     ~call.ret

\* mkdir failed for the first of two names and the call returned false
\* without asking for the second
C22_Witness ==
  /\ ReturnedAlone(1, "create_directories")
  /\ FromString(Cur(1).arg)
  /\ Len(Cur(1).arg.path_as_vector_) = 2
  /\ Len(Cur(1).trace) = 1
  /\ Cur(1).trace[1].path = Cur(1).arg.path_as_vector_[1]
  /\ ~Cur(1).trace[1].ok
  /\ ~Cur(1).ret

\* C28: remove_all(p) removes and changes no entry other than p and the
\* entries below p, and hands no "." or ".." entry of a directory it visits
\* to remove: the directory p lies in and the entries beside p stay as they
\* were.
C28_RemoveAllFrame ==
  \A c \in Callers :
     (calls[c] # <<>> /\ Cur(c).op = "remove_all" /\ ~Cur(c).interfered) =>
        LET call == Cur(c)
            r == resolve(call.fs0, cwd, string(call.arg))
            tree == IF r.ok THEN Tree(call.fs0, r.loc) ELSE {}
        IN  /\ DOMAIN fs \subseteq DOMAIN call.fs0
            /\ \A x \in DOMAIN call.fs0 \ tree : x \in DOMAIN fs /\ fs[x] = call.fs0[x]
            /\ \A i \in Removals(call) :
                  call.trace[i].path = string(call.arg) \/ ~EndsInDot(call.trace[i].path)

\* remove_all() removed a directory and the entry it held; an entry beside
\* the directory is still there
C28_Witness ==
  /\ ReturnedAlone(1, "remove_all")
  /\ Cur(1).ret
  /\ Len(Cur(1).trace) = 2
  /\ LET l == resolve(Cur(1).fs0, cwd, string(Cur(1).arg)).loc
     IN  /\ l # ROOT
         /\ \E x \in DOMAIN fs : x # l /\ Len(x) = Len(l) /\ Parent(x) = Parent(l)
         /\ l \notin DOMAIN fs

\* C29 (as claimed): whenever remove_all returns, by the early `return
\* false` too, every directory handle it opened has been closed.
C29_HandlesReleased ==
  \A c \in Callers :
     (Returned(c) /\ Cur(c).op = "remove_all") => Cur(c).leaked = 0

\* what replacing the occurrences of find in s, taken from left to right
\* without overlap, by repl gives; the text put in is not looked at again
RECURSIVE C25_Expected(_, _, _)
C25_Expected(s, find, repl) ==
  IF s = <<>> THEN <<>>
  ELSE IF StandsAt(s, find, 0)
       THEN repl \o C25_Expected(SubSeq(s, Len(find) + 1, Len(s)), find, repl)
       ELSE <<Head(s)>> \o C25_Expected(Tail(s), find, repl)

\* C25: find_and_replace terminates for every input (the loop body runs at
\* most once for each character of the input and each search stays inside
\* the string), also when replace contains find, find equals replace or find
\* is empty; it returns the input with the non-overlapping occurrences of
\* find, taken from left to right, replaced and the inserted text not scanned
\* again; the input is returned unchanged when find is empty or equals replace.
C25_FindAndReplace ==
  far.pc # "idle" =>
    /\ far.turns <= Len(far.input)
    /\ (far.pc = "loop" /\ far.pos # NPOS) => StandsAt(far.output, far.find, far.pos)
    /\ far.pc = "done" =>
         /\ far.output = (IF far.find = <<>> \/ far.find = far.replace
                          THEN far.input
                          ELSE C25_Expected(far.input, far.find, far.replace))
         /\ (far.find = <<>> \/ far.find = far.replace) => far.turns = 0

\* find_and_replace returned after replacing two occurrences of find by a
\* longer text that contains find
C25_Witness ==
  /\ far.pc = "done"
  /\ far.turns >= 2
  /\ far.find # far.replace
  /\ Len(far.replace) > Len(far.find)
  /\ \E i \in 0..Len(far.replace) : StandsAt(far.replace, far.find, i)

\* C24: the callable of a scope_exit has not run while the object is alive;
\* once the object is destroyed it has run exactly once if cancel() was never
\* called on the object and not at all otherwise.
C24_ScopeExit ==
  \A i \in 1..Len(guards) :
     /\ guards[i].alive => guards[i].invoked = 0
     /\ ~guards[i].alive =>
          guards[i].invoked = (IF guards[i].cancel_called THEN 0 ELSE 1)

\* one object was destroyed after cancel() and its callable never ran,
\* another was destroyed without cancel() and its callable ran once, a third
\* is still alive
C24_Witness ==
  \E i, j, k \in 1..Len(guards) :
     /\ ~guards[i].alive /\ guards[i].cancel_called /\ guards[i].invoked = 0
     /\ ~guards[j].alive /\ ~guards[j].cancel_called /\ guards[j].invoked = 1
     /\ guards[k].alive

RECURSIVE C23_Sum(_)
C23_Sum(s) == IF s = <<>> THEN 0 ELSE Head(s) + C23_Sum(Tail(s))

\* the last min(k, N) of the k values accumulated
C23_Window(a) ==
  LET k == Len(a.accumulated)
      m == IF k < Len(a.buffer_) THEN k ELSE Len(a.buffer_)
  IN  SubSeq(a.accumulated, k - m + 1, k)

\* the quotient of integers as C++ rounds it, toward zero
C23_Quotient(a, b) == IF a >= 0 THEN a \div b ELSE 0 - ((0 - a) \div b)

\* C23 (as claimed): after k >= 1 accumulate calls on a window of N >= 1 the
\* stored sum is the sum of the last min(k, N) values, and getRollingMean
\* returns that sum divided by min(k, N).
C23_RollingMean ==
  (rma.made /\ Len(rma.accumulated) >= 1) =>
     LET w == C23_Window(rma)
     IN  /\ rma.sum_ = C23_Sum(w)
         /\ valid_data_count(rma) = Len(w)
         /\ rma.mean # <<>> =>
              IF rma.integral
              THEN rma.mean[1].num = C23_Quotient(C23_Sum(w), Len(w))
              ELSE rma.mean[1].num = C23_Sum(w) /\ rma.mean[1].den = Len(w)

====
